---- MODULE Spec2Model ----
(***************************************************************************)
(* Model of src/lib/projectionSearchFilter.ts: the product projection      *)
(* filter expression of the commercetools mock.                            *)
(*                                                                         *)
(* A filter string is lexed (getLexer), parsed by an operator-precedence   *)
(* parser into a match function (generateMatchFunc), and wrapped by        *)
(* parseFilterExpression into a product filter of one of four families     *)
(* which is then applied to products.                                      *)
(*                                                                         *)
(* Filter strings and string values are TLA+ strings; characters are       *)
(* strings of length 1 (SubSeq(s, i, i)).                                  *)
(***************************************************************************)
EXTENDS Integers, Sequences, FiniteSets, TLC

VARIABLES product, filter, staged, compiled, outcome, mark

vars == <<product, filter, staged, compiled, outcome, mark>>

(***************************************************************************)
(* JavaScript values.  Every value is a record of one shape:               *)
(*   k     : "undef" | "str" | "int" | "obj" | "list"                      *)
(*           | "exists" | "missing" | "range" | "eq" | "in" | "call"       *)
(*           (the last six are the closures generateMatchFunc builds)      *)
(*   s     : the text of a string, n : the number of an int                *)
(*   items : the elements of a list, the captured values of a closure, or  *)
(*           the properties of an object as <<name1, value1, name2, ...>>  *)
(***************************************************************************)
Undef == [k |-> "undef", s |-> "", n |-> 0, items |-> <<>>]
Str(x) == [k |-> "str", s |-> x, n |-> 0, items |-> <<>>]
Num(i) == [k |-> "int", s |-> "", n |-> i, items |-> <<>>]
List(xs) == [k |-> "list", s |-> "", n |-> 0, items |-> xs]
Obj(props) == [k |-> "obj", s |-> "", n |-> 0, items |-> props]
Fn(kind, captured) == [k |-> kind, s |-> "", n |-> 0, items |-> captured]

FnKinds == {"exists", "missing", "range", "eq", "in", "call"}

\* typeof v === 'function'
IsFunction(v) == v.k \in FnKinds

\* Array.isArray(v)
IsArray(v) == v.k = "list"

(***************************************************************************)
(* Characters.                                                             *)
(***************************************************************************)
Ch(s, i) == SubSeq(s, i, i)

LowerLetters ==
  {"a", "b", "c", "d", "e", "f", "g", "h", "i", "j", "k", "l", "m",
   "n", "o", "p", "q", "r", "s", "t", "u", "v", "w", "x", "y", "z"}

UpperLetters ==
  {"A", "B", "C", "D", "E", "F", "G", "H", "I", "J", "K", "L", "M",
   "N", "O", "P", "Q", "R", "S", "T", "U", "V", "W", "X", "Y", "Z"}

Digits == {"0", "1", "2", "3", "4", "5", "6", "7", "8", "9"}

Whitespace == {" "}

\* the pairs of the case folding the /i flag applies
CasePairs ==
  {<<"A", "a">>, <<"B", "b">>, <<"C", "c">>, <<"D", "d">>, <<"E", "e">>,
   <<"F", "f">>, <<"G", "g">>, <<"H", "h">>, <<"I", "i">>, <<"J", "j">>,
   <<"K", "k">>, <<"L", "l">>, <<"M", "m">>, <<"N", "n">>, <<"O", "o">>,
   <<"P", "p">>, <<"Q", "q">>, <<"R", "r">>, <<"S", "s">>, <<"T", "t">>,
   <<"U", "u">>, <<"V", "v">>, <<"W", "w">>, <<"X", "x">>, <<"Y", "y">>,
   <<"Z", "z">>}

LowerCh(c) ==
  IF c \in UpperLetters THEN (CHOOSE p \in CasePairs : p[1] = c)[2] ELSE c

RECURSIVE LowerStr(_)
LowerStr(s) ==
  IF Len(s) = 0 THEN "" ELSE LowerCh(Ch(s, 1)) \o LowerStr(SubSeq(s, 2, Len(s)))

\* the class [-_a-z0-9] under /i, of the keywords' negative lookahead
KeywordTail == LowerLetters \cup UpperLetters \cup Digits \cup {"-", "_"}

\* the class [-_\.a-z] under /i, of IDENTIFIER
IdentifierChars == LowerLetters \cup UpperLetters \cup {"-", "_", "."}

\* the digit value of a character
DigitVal(c) ==
  CASE c = "0" -> 0 [] c = "1" -> 1 [] c = "2" -> 2 [] c = "3" -> 3
    [] c = "4" -> 4 [] c = "5" -> 5 [] c = "6" -> 6 [] c = "7" -> 7
    [] c = "8" -> 8 [] c = "9" -> 9

\* parseInt(s, 10) of a string of digits
RECURSIVE parseInt(_)
parseInt(s) ==
  IF Len(s) = 0 THEN 0
  ELSE 10 * parseInt(SubSeq(s, 1, Len(s) - 1)) + DigitVal(Ch(s, Len(s)))

(***************************************************************************)
(* getLexer: the token types in the order they are registered.  At a       *)
(* position the lexer takes the first token type whose pattern matches     *)
(* there; a skipped type (WS) is passed over.  A token is                  *)
(*   type  : the token type, "EOS" at the end of input, "ERR" when no      *)
(*           pattern matches (the lexer throws)                            *)
(*   match : the matched text, grp : capture group 1                       *)
(*   end   : the position after the token                                  *)
(***************************************************************************)
Token(type, match, grp, end) ==
  [type |-> type, match |-> match, grp |-> grp, end |-> end]

\* the length of the longest run of characters of class cs from position i
RECURSIVE RunLen(_, _, _)
RunLen(src, i, cs) ==
  IF i <= Len(src) /\ Ch(src, i) \in cs THEN 1 + RunLen(src, i + 1, cs) ELSE 0

\* /kw(?![-_a-z0-9]+)/i at position i
KeywordAt(src, i, kw) ==
  /\ i + Len(kw) - 1 <= Len(src)
  /\ LowerStr(SubSeq(src, i, i + Len(kw) - 1)) = kw
  /\ ~ (i + Len(kw) <= Len(src) /\ Ch(src, i + Len(kw)) \in KeywordTail)

\* /\d+\.\d+/ at position i: the length of the match, 0 when there is none
FloatLen(src, i) ==
  LET a == RunLen(src, i, Digits)
      b == RunLen(src, i + a + 1, Digits)
  IN  IF a > 0 /\ i + a <= Len(src) /\ Ch(src, i + a) = "." /\ b > 0
      THEN a + 1 + b ELSE 0

\* /q((?:\\.|[^q\\])*)q/ from the character after the opening quote: the
\* position of the closing quote, 0 when there is none
RECURSIVE StringEnd(_, _, _)
StringEnd(src, i, q) ==
  IF i > Len(src) THEN 0
  ELSE IF Ch(src, i) = "\\"
       THEN IF i + 1 > Len(src) THEN 0 ELSE StringEnd(src, i + 2, q)
       ELSE IF Ch(src, i) = q THEN i ELSE StringEnd(src, i + 1, q)

SingleCharTokens == {",", "(", ":", ")", "\""}

RECURSIVE peek(_, _)
peek(src, pos) ==
  IF pos > Len(src) THEN Token("EOS", "", "", pos)
  ELSE
    LET c == Ch(src, pos)
        idLen == RunLen(src, pos, IdentifierChars)
        flLen == FloatLen(src, pos)
        intLen == RunLen(src, pos, Digits)
        strEnd == IF c \in {"\"", "'"} THEN StringEnd(src, pos + 1, c) ELSE 0
        tok(type, len) == Token(type, SubSeq(src, pos, pos + len - 1), "", pos + len)
    IN  IF KeywordAt(src, pos, "missing") THEN tok("MISSING", 7)
        ELSE IF KeywordAt(src, pos, "exists") THEN tok("EXISTS", 6)
        ELSE IF KeywordAt(src, pos, "range") THEN tok("RANGE", 5)
        ELSE IF KeywordAt(src, pos, "to") THEN tok("TO", 2)
        ELSE IF idLen > 0 THEN tok("IDENTIFIER", idLen)
        ELSE IF flLen > 0 THEN tok("FLOAT", flLen)
        ELSE IF intLen > 0 THEN tok("INT", intLen)
        ELSE IF strEnd > 0
          THEN Token("STRING", SubSeq(src, pos, strEnd),
                     SubSeq(src, pos + 1, strEnd - 1), strEnd + 1)
        ELSE IF c \in SingleCharTokens THEN tok(IF c = "," THEN "COMMA" ELSE c, 1)
        ELSE IF c \in Whitespace THEN peek(src, pos + 1)
        ELSE Token("ERR", c, "", pos + 1)

(***************************************************************************)
(* generateMatchFunc: the rules of the operator-precedence parser.  A      *)
(* rule registered with a binding power gives that power to its token      *)
(* type; a token type with no registered power binds infinitely tightly,   *)
(* the end of input infinitely loosely.                                    *)
(***************************************************************************)
BpIdentifier == 100
BpColon == 100
BpString == 20
BpInt == 5
BpExists == 10
BpMissing == 10
BpComma == 200
BpCloseParen == 0
BpTo == 20
BpRange == 20

TypesWithBp ==
  {"IDENTIFIER", ":", "STRING", "INT", "EXISTS", "MISSING", "COMMA", ")",
   "TO", "RANGE"}

bp(type) ==
  CASE type = "IDENTIFIER" -> BpIdentifier
    [] type = ":" -> BpColon
    [] type = "STRING" -> BpString
    [] type = "INT" -> BpInt
    [] type = "EXISTS" -> BpExists
    [] type = "MISSING" -> BpMissing
    [] type = "COMMA" -> BpComma
    [] type = ")" -> BpCloseParen
    [] type = "TO" -> BpTo
    [] type = "RANGE" -> BpRange

\* the parser's test to go on with the next token as an operator, under
\* the terminals [rbp]: rbp < bp(next token)
canContinue(rbp, tok) ==
  /\ tok.type # "EOS"
  /\ tok.type \in TypesWithBp => rbp < bp(tok.type)

\* a parse step's result: a value and the lexer's position, or an exception
Ok(val, pos) == [ok |-> TRUE, val |-> val, pos |-> pos, err |-> ""]
Throw(err) == [ok |-> FALSE, val |-> Undef, pos |-> 0, err |-> err]

\* const [start, stop] = <v>: the first two elements of what v iterates
\* over; a number or a function is not iterable
destructurePair(v) ==
  LET at(xs, i) == IF i <= Len(xs) THEN xs[i] ELSE Undef
      chr(x, i) == IF i <= Len(x) THEN Str(Ch(x, i)) ELSE Undef
  IN  IF v.k = "list" THEN [ok |-> TRUE, start |-> at(v.items, 1), stop |-> at(v.items, 2)]
      ELSE IF v.k = "str" THEN [ok |-> TRUE, start |-> chr(v.s, 1), stop |-> chr(v.s, 2)]
      ELSE [ok |-> FALSE, start |-> Undef, stop |-> Undef]

\* a variant of commaList that nests the right operand instead of
\* flattening it
commaListNested(left, expr) == List(<<left, expr>>)

\* the list the COMMA rule builds from its left operand and the parsed
\* right operand, which is flattened when it is a list itself
commaList(left, expr) ==
  IF IsArray(expr) THEN List(<<left>> \o expr.items) ELSE List(<<left, expr>>)

RECURSIVE parse(_, _, _)
RECURSIVE parseLoop(_, _, _, _)
RECURSIVE nud(_, _)
RECURSIVE led(_, _, _)

\* the prefix rules; tok has just been taken from the lexer
nud(src, tok) ==
  IF tok.type = "IDENTIFIER" THEN Ok(Str(tok.match), tok.end)
  ELSE IF tok.type = "STRING" THEN Ok(Str(tok.grp), tok.end)
  ELSE IF tok.type = "INT" THEN Ok(Num(parseInt(tok.match)), tok.end)
  ELSE IF tok.type = "EXISTS" THEN Ok(Fn("exists", <<>>), tok.end)
  ELSE IF tok.type = "MISSING" THEN Ok(Fn("missing", <<>>), tok.end)
  ELSE IF tok.type = "RANGE" THEN
    \* lexer.next() skips one token, whatever it is
    LET skipped == peek(src, tok.end)
    IN  IF skipped.type = "ERR" THEN Throw("Unexpected input")
        ELSE LET inner == parse(src, skipped.end, 0)
             IN  IF ~ inner.ok THEN inner
                 ELSE LET pair == destructurePair(inner.val)
                      IN  IF ~ pair.ok THEN Throw("TypeError")
                          ELSE Ok(Fn("range", <<pair.start, pair.stop>>), inner.pos)
  ELSE Throw("Unexpected token")

\* the infix rules; tok is the operator just taken from the lexer
led(src, tok, left) ==
  IF tok.type = ":" THEN
    LET r == parse(src, tok.end, BpColon - 1)
    IN  IF ~ r.ok THEN r
        ELSE IF IsArray(r.val) THEN Ok(Fn("in", r.val.items), r.pos)
        ELSE IF IsFunction(r.val) THEN Ok(Fn("call", <<r.val>>), r.pos)
        ELSE Ok(Fn("eq", <<r.val>>), r.pos)
  ELSE IF tok.type = "COMMA" THEN
    LET r == parse(src, tok.end, BpComma - 1)
    IN  IF ~ r.ok THEN r
        ELSE Ok(commaList(left, r.val), r.pos)
  ELSE IF tok.type = "TO" THEN
    LET r == parse(src, tok.end, BpTo - 1)
    IN  IF ~ r.ok THEN r ELSE Ok(List(<<left, r.val>>), r.pos)
  ELSE Throw("Unexpected token")

\* while the next token binds tighter than rbp, apply its infix rule
parseLoop(src, left, pos, rbp) ==
  LET t == peek(src, pos)
  IN  IF t.type = "ERR" THEN Throw("Unexpected input")
      ELSE IF ~ canContinue(rbp, t) THEN Ok(left, pos)
      ELSE LET r == led(src, t, left)
           IN  IF ~ r.ok THEN r ELSE parseLoop(src, r.val, r.pos, rbp)

\* Parser.parse({terminals: [rbp]}) with the lexer at pos; parse() without
\* options is parse({terminals: [0]})
parse(src, pos, rbp) ==
  LET t == peek(src, pos)
  IN  IF t.type = "ERR" THEN Throw("Unexpected input")
      ELSE LET l == nud(src, t)
           IN  IF ~ l.ok THEN l ELSE parseLoop(src, l.val, l.pos, rbp)

\* generateMatchFunc(filter): the match function, or the exception thrown
generateMatchFunc(f) ==
  LET result == parse(f, 1, 0)
  IN  IF ~ result.ok THEN result
      ELSE IF ~ IsFunction(result.val) THEN Throw("Syntax error")
      ELSE result

(***************************************************************************)
(* Applying a match function to a value.                                   *)
(***************************************************************************)
\* the characters of the model in the order of their code units
CodeOrder ==
  " \"'()*,-.0123456789:ABCDEFGHIJKLMNOPQRSTUVWXYZ\\_abcdefghijklmnopqrstuvwxyz"

CodeOf(c) == CHOOSE i \in 1..Len(CodeOrder) : Ch(CodeOrder, i) = c

\* a < b for strings: by code units, a proper prefix first
RECURSIVE StrLess(_, _)
StrLess(a, b) ==
  IF Len(b) = 0 THEN FALSE
  ELSE IF Len(a) = 0 THEN TRUE
  ELSE IF Ch(a, 1) = Ch(b, 1)
    THEN StrLess(SubSeq(a, 2, Len(a)), SubSeq(b, 2, Len(b)))
  ELSE CodeOf(Ch(a, 1)) < CodeOf(Ch(b, 1))

\* ToNumber: [nan |-> TRUE] or the number.  A string of digits is its
\* decimal value, the empty string 0, any other string of the model NaN;
\* undefined is NaN, and so is an object, a list of two or more elements
\* or a closure (through its string conversion).
ToNumber(v) ==
  IF v.k = "int" THEN [nan |-> FALSE, n |-> v.n]
  ELSE IF v.k = "str" /\ RunLen(v.s, 1, Digits) = Len(v.s)
    THEN [nan |-> FALSE, n |-> parseInt(v.s)]
  ELSE [nan |-> TRUE, n |-> 0]

\* a variant of GreaterEq that excludes equal numbers
GreaterStrict(a, b) ==
  IF a.k = "str" /\ b.k = "str" THEN StrLess(b.s, a.s)
  ELSE LET x == ToNumber(a)
           y == ToNumber(b)
       IN  ~ x.nan /\ ~ y.nan /\ x.n > y.n

\* a >= b and a <= b of JavaScript, for undefined, numbers and strings on
\* either side, and for objects, lists and closures against those that are
\* not strings
GreaterEq(a, b) ==
  IF a.k = "str" /\ b.k = "str" THEN ~ StrLess(a.s, b.s)
  ELSE LET x == ToNumber(a)
           y == ToNumber(b)
       IN  ~ x.nan /\ ~ y.nan /\ x.n >= y.n

LessEq(a, b) == GreaterEq(b, a)

\* a === b where b is a string or a number; also the equality of
\* Array.prototype.includes for the values the model compares
StrictEq(a, b) ==
  /\ a.k = b.k
  /\ a.k \in {"str", "int"}
  /\ a.s = b.s
  /\ a.n = b.n

\* a variant of isDefined that tests for a truthy value
isDefinedTruthy(val) == val.k # "undef" /\ val # Str("") /\ val # Num(0)

\* val !== undefined
isDefined(val) == val.k # "undef"

\* exprFunc(val) for a closure built by generateMatchFunc
RECURSIVE Call(_, _)
Call(fn, val) ==
  IF fn.k = "exists" THEN isDefined(val)
  ELSE IF fn.k = "missing" THEN val.k = "undef"
  ELSE IF fn.k = "range"
    THEN GreaterEq(val, fn.items[1]) /\ LessEq(val, fn.items[2])
  ELSE IF fn.k = "in"
    THEN \E i \in 1..Len(fn.items) : StrictEq(val, fn.items[i])
  ELSE IF fn.k = "call" THEN Call(fn.items[1], val)
  ELSE StrictEq(val, fn.items[1])

(***************************************************************************)
(* String helpers of parseFilterExpression and the family filters.         *)
(***************************************************************************)
\* the position of the first occurrence of character c from i, 0 if none
RECURSIVE IndexOf(_, _, _)
IndexOf(s, c, i) ==
  IF i > Len(s) THEN 0
  ELSE IF Ch(s, i) = c THEN i ELSE IndexOf(s, c, i + 1)

\* s.split(c): the pieces between the occurrences of c
RECURSIVE split(_, _)
split(s, c) ==
  LET i == IndexOf(s, c, 1)
  IN  IF i = 0 THEN <<s>>
      ELSE <<SubSeq(s, 1, i - 1)>> \o split(SubSeq(s, i + 1, Len(s)), c)

\* s.split(c, limit): the first limit pieces
splitLimit(s, c, limit) ==
  LET all == split(s, c)
  IN  SubSeq(all, 1, IF Len(all) < limit THEN Len(all) ELSE limit)

\* an element of a destructured array: undefined past its end
pieceAt(pieces, i) == IF i <= Len(pieces) THEN Str(pieces[i]) ELSE Undef

startsWith(s, prefix) ==
  Len(prefix) <= Len(s) /\ SubSeq(s, 1, Len(prefix)) = prefix

(***************************************************************************)
(* Products.  A product has the projections masterData.current and         *)
(* masterData.staged, each with a masterVariant and a list of variants.    *)
(* A variant is a record                                                   *)
(*   sku, key          : a string value or undefined                       *)
(*   attributes        : [def, items]: undefined, or the list of           *)
(*                       [name, value] entries                             *)
(*   prices            : [def, items]: undefined, or the list of prices    *)
(*                       [value |-> [centAmount |-> n]]                    *)
(*   scopedPrice       : [def, value]: undefined, or the scoped price      *)
(*   isMatchingVariant : whether the flag has been set                     *)
(***************************************************************************)
projectionOf(stg) == IF stg THEN "staged" ELSE "current"

\* getVariants(p, staged): the master variant, then the variants
getVariants(p, stg) ==
  <<p[projectionOf(stg)].masterVariant>> \o p[projectionOf(stg)].variants

\* variant.isMatchingVariant = true on the i-th element of getVariants
markVariant(p, stg, i) ==
  LET proj == projectionOf(stg)
  IN  IF i = 1
      THEN [p EXCEPT ![proj].masterVariant.isMatchingVariant = TRUE]
      ELSE [p EXCEPT ![proj].variants[i - 1].isMatchingVariant = TRUE]

\* obj[part] for a value; a string or a number has none of the properties
\* the model's paths name
propertyOf(val, part) ==
  IF val.k = "obj" /\ \E i \in 1..Len(val.items) : i % 2 = 1 /\ val.items[i] = Str(part)
  THEN val.items[(CHOOSE i \in 1..Len(val.items) :
                    i % 2 = 1 /\ val.items[i] = Str(part)) + 1]
  ELSE Undef

\* the loop of resolveValue over parts[i..]: reading a property of
\* undefined throws
RECURSIVE resolveParts(_, _, _)
resolveParts(val, parts, i) ==
  IF i > Len(parts) THEN Ok(val, 0)
  ELSE IF val.k = "undef" THEN Throw("TypeError")
  ELSE resolveParts(propertyOf(val, parts[i]), parts, i + 1)

\* resolveValue(obj, path) for a value obj
resolveValue(obj, path) ==
  IF path.k = "undef" THEN Ok(obj, 0)
  ELSE resolveParts(obj, split(path.s, "."), 1)

\* resolveValue(variant, path) for a variant and the one-segment path of
\* filterVariant, which starts with sku or key
resolveVariantValue(variant, path) ==
  IF path.s = "sku" THEN variant.sku
  ELSE IF path.s = "key" THEN variant.key
  ELSE Undef

\* what applying a product filter gives: it returns true or false or
\* throws, and leaves the product as p
Applied(result, p) == [result |-> result, product |-> p]

\* a variant of matchVariant that marks whether or not it is asked for
matchVariantAlwaysMark(exprFunc, value, p, stg, i, markMatchingVariant) ==
  IF Call(exprFunc, value)
  THEN Applied("true", markVariant(p, stg, i))
  ELSE Applied("false", p)

\* the tail of every family's loop body: the variant i is marked when the
\* value matches and marking is asked for
matchVariant(exprFunc, value, p, stg, i, markMatchingVariant) ==
  IF Call(exprFunc, value)
  THEN Applied("true", IF markMatchingVariant THEN markVariant(p, stg, i) ELSE p)
  ELSE Applied("false", p)

(***************************************************************************)
(* The four families of product filters.  Each is the closure returned     *)
(* for (source, staged, exprFunc), applied to (p, markMatchingVariant).    *)
(***************************************************************************)
\* a variant of filterVariant that goes on to the next variant when the
\* value does not match
RECURSIVE filterVariantSearch(_, _, _, _, _, _)
filterVariantSearch(source, stg, exprFunc, p, markMatchingVariant, i) ==
  LET path == pieceAt(splitLimit(source, ".", 2), 2)
      variants == getVariants(p, stg)
  IN  IF i > Len(variants) THEN Applied("false", p)
      ELSE IF Call(exprFunc, resolveVariantValue(variants[i], path))
        THEN matchVariant(exprFunc, resolveVariantValue(variants[i], path),
                          p, stg, i, markMatchingVariant)
      ELSE filterVariantSearch(source, stg, exprFunc, p, markMatchingVariant, i + 1)

filterVariantAllVariants(source, stg, exprFunc, p, markMatchingVariant) ==
  filterVariantSearch(source, stg, exprFunc, p, markMatchingVariant, 1)

\* filterVariant: the body of the loop returns in its first iteration
filterVariant(source, stg, exprFunc, p, markMatchingVariant) ==
  LET path == pieceAt(splitLimit(source, ".", 2), 2)
      variants == getVariants(p, stg)
      value == resolveVariantValue(variants[1], path)
  IN  matchVariant(exprFunc, value, p, stg, 1, markMatchingVariant)

\* a variant of filterAttribute that gives up when the first variant has
\* no attribute of the name
RECURSIVE filterAttributeFrom(_, _, _, _, _, _)
filterAttributeFirstVariantOnly(source, stg, exprFunc, p, markMatchingVariant) ==
  LET attrName == pieceAt(splitLimit(source, ".", 4), 3)
      attrs == getVariants(p, stg)[1].attributes
  IN  IF attrs.def /\ \E j \in 1..Len(attrs.items) : Str(attrs.items[j].name) = attrName
      THEN filterAttributeFrom(source, stg, exprFunc, p, markMatchingVariant, 1)
      ELSE Applied("false", p)

\* filterAttribute, from the i-th variant on: a variant without attributes
\* or without an attribute of the name is passed over
filterAttributeFrom(source, stg, exprFunc, p, markMatchingVariant, i) ==
  LET pieces == splitLimit(source, ".", 4)
      attrName == pieceAt(pieces, 3)
      path == pieceAt(pieces, 4)
      variants == getVariants(p, stg)
  IN  IF i > Len(variants) THEN Applied("false", p)
      ELSE
        LET attrs == variants[i].attributes
            named == {j \in 1..Len(attrs.items) : Str(attrs.items[j].name) = attrName}
        IN  IF ~ attrs.def \/ named = {}
            THEN filterAttributeFrom(source, stg, exprFunc, p, markMatchingVariant, i + 1)
            ELSE
              LET attr == attrs.items[CHOOSE j \in named : \A j2 \in named : j <= j2]
                  value == resolveValue(attr.value, path)
              IN  IF ~ value.ok THEN Applied("throw", p)
                  ELSE matchVariant(exprFunc, value.val, p, stg, i, markMatchingVariant)

filterAttribute(source, stg, exprFunc, p, markMatchingVariant) ==
  filterAttributeFrom(source, stg, exprFunc, p, markMatchingVariant, 1)

\* filterPrice, from the i-th variant on: a variant without prices is
\* passed over; prices[0] of an empty list is undefined and reading its
\* value throws
RECURSIVE filterPriceFrom(_, _, _, _, _, _)
filterPriceFrom(source, stg, exprFunc, p, markMatchingVariant, i) ==
  LET variants == getVariants(p, stg)
  IN  IF i > Len(variants) THEN Applied("false", p)
      ELSE
        LET prices == variants[i].prices
        IN  IF ~ prices.def
            THEN filterPriceFrom(source, stg, exprFunc, p, markMatchingVariant, i + 1)
            ELSE IF Len(prices.items) = 0 THEN Applied("throw", p)
            ELSE matchVariant(exprFunc, Num(prices.items[1].value.centAmount),
                              p, stg, i, markMatchingVariant)

filterPrice(source, stg, exprFunc, p, markMatchingVariant) ==
  filterPriceFrom(source, stg, exprFunc, p, markMatchingVariant, 1)

\* a variant of filterScopedPrice that does not check the source
filterScopedPriceUnchecked(source, stg, exprFunc, p, markMatchingVariant) ==
  LET scoped == getVariants(p, stg)[1].scopedPrice
      value == IF scoped.def THEN Num(scoped.value.centAmount) ELSE Undef
  IN  matchVariant(exprFunc, value, p, stg, 1, markMatchingVariant)

\* filterScopedPrice: the source is checked when the filter is applied; the
\* body of the loop returns in its first iteration
filterScopedPrice(source, stg, exprFunc, p, markMatchingVariant) ==
  IF source # "variants.scopedPrice.value.centAmount" THEN Applied("throw", p)
  ELSE
    LET variants == getVariants(p, stg)
        scoped == variants[1].scopedPrice
        value == IF scoped.def THEN Num(scoped.value.centAmount) ELSE Undef
    IN  matchVariant(exprFunc, value, p, stg, 1, markMatchingVariant)

(***************************************************************************)
(* parseFilterExpression(filter, staged): the product filter, as           *)
(*   status   : "ok", or "error" when generateMatchFunc throws             *)
(*   family   : which closure is returned                                  *)
(*   source   : the text before the first colon                            *)
(*   exprFunc : the match function                                         *)
(***************************************************************************)
NoFilter ==
  [status |-> "none", family |-> "", source |-> "", exprFunc |-> Undef, err |-> ""]

familyOf(source) ==
  IF startsWith(source, "variants.attributes") THEN "attribute"
  ELSE IF startsWith(source, "variants.price") THEN "price"
  ELSE IF startsWith(source, "variants.scopedPrice") THEN "scopedPrice"
  ELSE IF startsWith(source, "variants.sku") \/ startsWith(source, "variants.key")
    THEN "variant"
  ELSE "false"

parseFilterExpression(f, stg) ==
  LET source == splitLimit(f, ":", 2)[1]
      exprFunc == generateMatchFunc(f)
  IN  IF ~ exprFunc.ok
      THEN [status |-> "error", family |-> "", source |-> source,
            exprFunc |-> Undef, err |-> exprFunc.err]
      ELSE [status |-> "ok", family |-> familyOf(source), source |-> source,
            exprFunc |-> exprFunc.val, err |-> ""]

\* the product filter pf, compiled with staged = stg, applied to
\* (p, markMatchingVariant)
applyProductFilter(pf, stg, p, markMatchingVariant) ==
  IF pf.family = "attribute"
    THEN filterAttribute(pf.source, stg, pf.exprFunc, p, markMatchingVariant)
  ELSE IF pf.family = "price"
    THEN filterPrice(pf.source, stg, pf.exprFunc, p, markMatchingVariant)
  ELSE IF pf.family = "scopedPrice"
    THEN filterScopedPrice(pf.source, stg, pf.exprFunc, p, markMatchingVariant)
  ELSE IF pf.family = "variant"
    THEN filterVariant(pf.source, stg, pf.exprFunc, p, markMatchingVariant)
  ELSE Applied("false", p)

(***************************************************************************)
(* The inputs of the model: the filter strings that are compiled and the   *)
(* products the filters are applied to.                                    *)
(***************************************************************************)
Filters ==
  {"variants.sku:\"A\"",
   "variants.key:\"A\"",
   "variants.key:missing",
   "variants.key:exists",
   "variants.attributes.color:\"red\"",
   "variants.attributes.color:\"red\",\"blue\",\"green\"",
   "variants.attributes.color:(\"red\",\"blue\",\"green\")",
   "variants.attributes.color:missing",
   "variants.attributes.color:exists",
   "variants.attributes.color.key:missing",
   "variants.attributes.color.key:\"red\"",
   "variants.attributes.size:4",
   "variants.attributes.size:3,4,6",
   "variants.attributes.size2:4",
   "variants.attributes.size:1.5",
   "variants.attributes.size:range(1 to 5)",
   "variants.price.centAmount:range(100 to 500)",
   "variants.price.centAmount:range (100 TO 500)",
   "variants.scopedPrice.value.centAmount:range(1 to 2)",
   "variants.scopedPrice.value.centAmount:missing",
   "variants.scopedPrice.price:range(1 to 2)",
   "variants.key",
   "variants.key:",
   "variants.key:\"A\")",
   "variants.key:\"A\" \"B\"",
   "variants.key:\"A\":\"B\"",
   "variants.sku:*",
   "categories.id:\"A\""}

\* the most entries a projection's list of variants has
MaxVariants == 1

Absent == [def |-> FALSE, items |-> <<>>]
Present(xs) == [def |-> TRUE, items |-> xs]
Attr(name, value) == [name |-> name, value |-> value]
Price(c) == [value |-> [centAmount |-> c]]
NoScopedPrice == [def |-> FALSE, value |-> [centAmount |-> 0]]
ScopedPrice(c) == [def |-> TRUE, value |-> [centAmount |-> c]]

Variant(sku, key, attributes, prices, scopedPrice) ==
  [sku |-> sku, key |-> key, attributes |-> attributes, prices |-> prices,
   scopedPrice |-> scopedPrice, isMatchingVariant |-> FALSE]

AttributeLists ==
  {<<>>,
   <<Attr("color", Str("red"))>>,
   <<Attr("color", Str("green"))>>,
   <<Attr("size", Num(4)), Attr("color", Str("blue"))>>,
   <<Attr("color", Str("green")), Attr("color", Str("red"))>>,
   <<Attr("color", Obj(<<Str("key"), Str("red")>>))>>,
   <<Attr("color", Undef)>>,
   <<Attr("size2", Num(4))>>,
   <<Attr("size", Num(5))>>}

PriceLists ==
  {<<>>,
   <<Price(99)>>, <<Price(100)>>, <<Price(500)>>, <<Price(501)>>,
   <<Price(99), Price(200)>>, <<Price(200), Price(99)>>}

\* the master variants: each group varies the fields of one family
MasterVariants ==
  {Variant(sku, key, Absent, Absent, NoScopedPrice) :
     sku \in {Undef, Str("A"), Str("B")}, key \in {Undef, Str(""), Str("A")}}
  \cup {Variant(Str("B"), Undef, Present(as), Absent, NoScopedPrice) :
          as \in AttributeLists}
  \cup {Variant(Str("B"), Undef, Absent, Present(ps), NoScopedPrice) :
          ps \in PriceLists}
  \cup {Variant(Str("B"), Undef, Absent, Absent, ScopedPrice(c)) : c \in {1, 3}}

\* the later variants: one that every family's filters can match and one
\* that has nothing
LaterVariants ==
  {Variant(Str("A"), Str("A"),
           Present(<<Attr("color", Str("red")), Attr("size", Num(4))>>),
           Present(<<Price(200)>>), ScopedPrice(1)),
   Variant(Undef, Undef, Absent, Absent, NoScopedPrice)}

VariantLists ==
  UNION {[1..n -> LaterVariants] : n \in 0..MaxVariants}

Projections ==
  {[masterVariant |-> m, variants |-> vs] : m \in MasterVariants, vs \in VariantLists}

\* the projection the product has beside the one that varies
OtherProjection ==
  [masterVariant |->
     Variant(Str("A"), Str("A"),
             Present(<<Attr("color", Str("red")), Attr("size", Num(4))>>),
             Present(<<Price(200)>>), ScopedPrice(1)),
   variants |-> <<>>]

Products ==
  {[current |-> pr, staged |-> OtherProjection] : pr \in Projections}
  \cup {[current |-> OtherProjection, staged |-> pr] : pr \in Projections}

\* the product filter of every filter string and value of staged
ProductFilters ==
  [f \in Filters |-> [stg \in BOOLEAN |-> parseFilterExpression(f, stg)]]

(***************************************************************************)
(* The state machine.  product is the product the filters are applied to,  *)
(* compiled the product filter parseFilterExpression(filter, staged)       *)
(* returned last, outcome what the last application of it gave ("none"     *)
(* before the first) and mark the markMatchingVariant it was given.        *)
(***************************************************************************)
Init ==
  /\ product \in Products
  /\ filter = ""
  /\ staged = FALSE
  /\ compiled = NoFilter
  /\ outcome = "none"
  /\ mark = FALSE

ParseFilterExpression(f, stg) ==
  /\ filter' = f
  /\ staged' = stg
  /\ compiled' = ProductFilters[f][stg]
  /\ outcome' = "none"
  /\ mark' = FALSE
  /\ UNCHANGED product

ApplyFilter(markMatchingVariant) ==
  /\ compiled.status = "ok"
  /\ LET r == applyProductFilter(compiled, staged, product, markMatchingVariant)
     IN  /\ product' = r.product
         /\ outcome' = r.result
  /\ mark' = markMatchingVariant
  /\ UNCHANGED <<filter, staged, compiled>>

Next ==
  \/ \E f \in Filters, stg \in BOOLEAN : ParseFilterExpression(f, stg)
  \/ \E m \in BOOLEAN : ApplyFilter(m)

Spec == Init /\ [][Next]_vars

(***************************************************************************)
(* Properties.                                                             *)
(***************************************************************************)
\* the projection the compiled filter reads and the other one
Selected == IF staged THEN product.staged ELSE product.current
NotSelectedName == IF staged THEN "current" ELSE "staged"
Master == Selected.masterVariant
Later == Selected.variants
Applied_ == outcome # "none"

\* the candidate variants in order: the master variant first
Candidate(i) == IF i = 1 THEN Master ELSE Later[i - 1]
CandidateCount == 1 + Len(Later)

\* C1: a filter variants.sku:"A" (variants.key:"A") applied to a product
\* returns true if and only if the master variant of the selected
\* projection has sku (key) "A", and false otherwise, whatever the later
\* variants hold
C1_FirstVariantDecides ==
  /\ (filter = "variants.sku:\"A\"" /\ Applied_) =>
       outcome = (IF Master.sku = Str("A") THEN "true" ELSE "false")
  /\ (filter = "variants.key:\"A\"" /\ Applied_) =>
       outcome = (IF Master.key = Str("A") THEN "true" ELSE "false")

\* C1 witness: the filter returned false on a product whose master variant
\* has another sku while a later variant has sku "A"
C1_Witness ==
  /\ filter = "variants.sku:\"A\""
  /\ outcome = "false"
  /\ Master.sku = Str("B")
  /\ \E i \in 1..Len(Later) : Later[i].sku = Str("A")

\* C4: variants.key:missing matches exactly when the master variant's key
\* is undefined and variants.key:exists exactly when it is defined, an
\* empty string being defined; on every product the two give opposite
\* results
C4_MissingExistsComplement ==
  /\ (filter = "variants.key:missing" /\ Applied_) =>
       outcome = (IF Master.key = Undef THEN "true" ELSE "false")
  /\ (filter = "variants.key:exists" /\ Applied_) =>
       outcome = (IF Master.key # Undef THEN "true" ELSE "false")
  /\ \A stg \in BOOLEAN :
       LET missing == applyProductFilter(ProductFilters["variants.key:missing"][stg],
                                         stg, product, FALSE).result
           exists == applyProductFilter(ProductFilters["variants.key:exists"][stg],
                                        stg, product, FALSE).result
       IN  {missing, exists} = {"true", "false"}

\* C4 witness: variants.key:exists returned true for an empty-string key
C4_Witness ==
  /\ filter = "variants.key:exists"
  /\ Master.key = Str("")
  /\ outcome = "true"

\* the product with the flag set on the i-th candidate of the selected
\* projection and nothing else changed
Tagged(i) ==
  [proj \in {"current", "staged"} |->
     IF proj = NotSelectedName THEN product[proj]
     ELSE [masterVariant |->
             IF i = 1
             THEN [sku |-> Master.sku, key |-> Master.key,
                   attributes |-> Master.attributes, prices |-> Master.prices,
                   scopedPrice |-> Master.scopedPrice, isMatchingVariant |-> TRUE]
             ELSE Master,
           variants |->
             [j \in 1..Len(Later) |->
                IF j = i - 1
                THEN [sku |-> Later[j].sku, key |-> Later[j].key,
                      attributes |-> Later[j].attributes, prices |-> Later[j].prices,
                      scopedPrice |-> Later[j].scopedPrice, isMatchingVariant |-> TRUE]
                ELSE Later[j]]]]

\* the flagged variants of a product, as <<projection, position>>
Flagged(p) ==
  {pj \in {"current", "staged"} \X (0..(MaxVariants + 1)) :
     IF pj[2] = 0 THEN p[pj[1]].masterVariant.isMatchingVariant
     ELSE /\ pj[2] <= Len(p[pj[1]].variants)
          /\ p[pj[1]].variants[pj[2]].isMatchingVariant}

\* the name an attribute filter looks for, and whether a variant has it
AttributeName == pieceAt(split(compiled.source, "."), 3)
HasAttribute(v) ==
  v.attributes.def /\ \E j \in 1..Len(v.attributes.items) :
                        Str(v.attributes.items[j].name) = AttributeName

\* the candidate whose value the compiled filter tests: the first one for
\* the variant and scoped price families, the first one with an attribute
\* of the name or with a list of prices for the other two; 0 if none
FirstWith(Has(_)) ==
  IF \E i \in 1..CandidateCount : Has(Candidate(i))
  THEN CHOOSE i \in 1..CandidateCount :
         Has(Candidate(i)) /\ \A j \in 1..(i - 1) : ~ Has(Candidate(j))
  ELSE 0
HasPrices(v) == v.prices.def
Deciding ==
  IF compiled.family = "attribute" THEN FirstWith(HasAttribute)
  ELSE IF compiled.family = "price" THEN FirstWith(HasPrices)
  ELSE 1

\* C6: applying a compiled filter leaves the product unchanged unless it
\* is asked to mark and returns true, and then it changes nothing but the
\* flag of the one variant of the selected projection whose value matched;
\* no flag is cleared and the other projection is never touched.  (The
\* steps that leave outcome other than "none" are the applications:
\* compiling a filter resets it.)
C6_OnlyTheFlagOfTheMatch ==
  [][outcome' # "none" =>
       /\ product'[NotSelectedName] = product[NotSelectedName]
       /\ (~ mark' \/ outcome' # "true") => product' = product
       /\ (mark' /\ outcome' = "true") => (Deciding > 0 /\ product' = Tagged(Deciding))
       /\ Flagged(product) \subseteq Flagged(product')]_vars

\* C6 witness: a marking application returned true on a product that
\* carried a flag on another variant, and both flags are set
C6_Witness ==
  /\ mark
  /\ outcome = "true"
  /\ Cardinality(Flagged(product)) >= 2
  /\ Flagged(product) \cap {<<NotSelectedName, 0>>} # {}

\* the value of the first attribute entry of variant v with the name the
\* compiled filter looks for
FirstAttributeValue(v) ==
  v.attributes.items[CHOOSE j \in 1..Len(v.attributes.items) :
                       /\ Str(v.attributes.items[j].name) = AttributeName
                       /\ \A j2 \in 1..(j - 1) :
                            Str(v.attributes.items[j2].name) # AttributeName].value

\* the attribute filters, and what each gives for the value of the entry
\* it finds; with the sub-path key the value read is the property key of
\* an object, undefined for a string or a number, and reading it from an
\* undefined value throws
AttributeFilters ==
  {"variants.attributes.color:\"red\"", "variants.attributes.size:4",
   "variants.attributes.color:exists", "variants.attributes.color:missing",
   "variants.attributes.color.key:\"red\"", "variants.attributes.color.key:missing"}
AsOutcome(b) == IF b THEN "true" ELSE "false"
KeyOf(value) ==
  IF value = Obj(<<Str("key"), Str("red")>>) THEN Str("red") ELSE Undef
Satisfies(f, value) ==
  IF f = "variants.attributes.color:\"red\"" THEN AsOutcome(value = Str("red"))
  ELSE IF f = "variants.attributes.size:4" THEN AsOutcome(value = Num(4))
  ELSE IF f = "variants.attributes.color:exists" THEN AsOutcome(value # Undef)
  ELSE IF f = "variants.attributes.color:missing" THEN AsOutcome(value = Undef)
  ELSE IF value = Undef THEN "throw"
  ELSE IF f = "variants.attributes.color.key:\"red\""
    THEN AsOutcome(KeyOf(value) = Str("red"))
  ELSE AsOutcome(KeyOf(value) = Undef)

PriceFilters ==
  {"variants.price.centAmount:range(100 to 500)",
   "variants.price.centAmount:range (100 TO 500)"}
FirstPriceInRange(v) ==
  /\ v.prices.def
  /\ Len(v.prices.items) > 0
  /\ v.prices.items[1].value.centAmount \in 100..500

UnsupportedScopedPrice == "variants.scopedPrice.price:range(1 to 2)"

\* C5 as claimed: parseFilterExpression itself rejects a scoped price
\* filter on another path than value.centAmount and returns no filter
C5_AsClaimed ==
  filter = UnsupportedScopedPrice => compiled.status = "error"

\* C5 amended: parseFilterExpression compiles a scoped price filter on
\* another path than value.centAmount and returns a product filter; the
\* error is raised each time that filter is applied to a product, so an
\* application never yields a boolean
C5_RejectedWhenApplied ==
  filter = UnsupportedScopedPrice =>
    /\ compiled.status = "ok"
    /\ compiled.family = "scopedPrice"
    /\ Applied_ => outcome = "throw"

\* C5 witness: the filter was compiled, applied and threw
C5_Witness ==
  /\ filter = UnsupportedScopedPrice
  /\ compiled.status = "ok"
  /\ outcome = "throw"

ThreeColours == <<Str("red"), Str("blue"), Str("green")>>
ThreeSizes == <<Num(3), Num(4), Num(6)>>
InSeq(x, xs) == \E i \in 1..Len(xs) : xs[i] = x

ListOutcome(xs) ==
  AsOutcome(/\ FirstWith(HasAttribute) > 0
            /\ InSeq(FirstAttributeValue(Candidate(FirstWith(HasAttribute))), xs))

EqualityFilters ==
  {"variants.sku:\"A\"", "variants.key:\"A\"", "variants.attributes.color:\"red\"",
   "variants.attributes.size:4", "variants.attributes.size2:4"}
LiteralOf(f) ==
  IF f \in {"variants.sku:\"A\"", "variants.key:\"A\""} THEN Str("A")
  ELSE IF f = "variants.attributes.color:\"red\"" THEN Str("red")
  ELSE Num(4)
ResolvedAtPath(f) ==
  IF f = "variants.sku:\"A\"" THEN Master.sku
  ELSE IF f = "variants.key:\"A\"" THEN Master.key
  ELSE IF HasAttribute(Master) THEN FirstAttributeValue(Master)
  ELSE Undef

\* C7 as claimed: a filter P:V of an identifier P of letters, digits, "-",
\* "_" and "." and a literal V compiles, and applied to a record whose
\* value at P equals V it returns true
C7_AsClaimed ==
  filter \in EqualityFilters =>
    /\ compiled.status = "ok"
    /\ (Applied_ /\ ResolvedAtPath(filter) = LiteralOf(filter)) => outcome = "true"

\* C8 as claimed: a filter that is a bare path, is malformed or has tokens
\* left over after a complete path:expression fails to compile
C8_AsClaimed ==
  filter \in {"variants.key", "variants.key:", "variants.key:\"A\" \"B\"",
              "variants.key:\"A\")"} =>
    compiled.status = "error"

\* C9 as claimed: an attribute that is absent from the variant reaches the
\* predicate as undefined, so that missing is true and exists false, and
\* resolving a sub-path never throws
C9_AsClaimed ==
  /\ (filter = "variants.attributes.color:missing" /\ Applied_ /\ ~ HasAttribute(Master))
       => outcome = "true"
  /\ (filter = "variants.attributes.color:exists" /\ Applied_ /\ ~ HasAttribute(Master))
       => outcome = "false"
  /\ (filter = "variants.attributes.color.key:missing" /\ Applied_)
       => outcome # "throw"

====
